---- MODULE Spec2Model ----
(***************************************************************************)
(* Model of the email auto-reply pipeline of YangCao28/email_bot:          *)
(*   src/email_pull.py        the ingestion producer (one pass per run)    *)
(*   src/process_response.py  the reply consumer and its retry loop        *)
(* The MySQL table `emails`, the Redis list `email_task_queue` and the two *)
(* Redis representations of the replied cache are the shared state; each   *)
(* producer process and each consumer worker has a program counter.        *)
(***************************************************************************)
EXTENDS Naturals, Sequences, FiniteSets, TLC

\* ------------------------------------------------------------------ bounds
MaxQueue == 2   \* longest email_task_queue the model explores
MaxSent  == 2   \* the per-identity count of accepted replies saturates here
MaxStamp == 2   \* the updated_at write stamp of a row saturates here
TtlTicks == 2   \* the retention window REPLIED_TTL_DAYS, in ticks of the clock

\* ------------------------------------------------------- program constants
MAX_RETRIES    == 3     \* process_response.py:38
UuidPrefixLen  == 100   \* email_pull.py:59  content[:100]
UuidPrefixLong == 200   \* email_pull.py:61  content[:200]

\* ------------------------------------------------------------ environment
\* uuid.uuid4() values that line 248 may draw for a message without Message-ID
RandIds == {"r1", "r2"}

\* Messages a mailbox may hold. mid = "" stands for a message that carries no
\* Message-ID header.
MsgWithId    == [mid |-> "<m1>", from |-> "s@x.com", content |-> "hello"]
MsgWithoutId == [mid |-> "",     from |-> "s@x.com", content |-> "hey"]
MsgOther     == [mid |-> "<m2>", from |-> "t@x.com", content |-> "other"]
\* A second message that carries the Message-ID of MsgWithId
MsgSameId    == [mid |-> "<m1>", from |-> "t@x.com", content |-> "again"]

AllMessages == {MsgWithId, MsgWithoutId, MsgOther, MsgSameId}

\* The deployments explored: the IMAP accounts of load_email_accounts in pass
\* order (imap_user of each), what each account's SEARCH SINCE returns in
\* email_ids order, the keys of SMTP_ACCOUNTS (load_and_map_smtp_accounts:
\* SMTPn_MAP_TO stripped and lowercased), and the processes that run:
\* overlapping runs of email_pull.py and instances of process_response.py
Deployments ==
  { [accounts  |-> << "A1@x.com" >>,
     mailbox   |-> << << MsgWithId >> >>,
     smtp      |-> {"a1@x.com"},
     producers |-> {"p1", "p2"},
     workers   |-> {"w1", "w2"}],
    [accounts  |-> << "A1@x.com" >>,
     mailbox   |-> << << MsgWithoutId >> >>,
     smtp      |-> {"a1@x.com"},
     producers |-> {"p1"},
     workers   |-> {}],
    [accounts  |-> << "A1@x.com", "a2@x.com" >>,
     mailbox   |-> << << MsgWithId >>, << MsgOther >> >>,
     smtp      |-> {"a1@x.com"},
     producers |-> {"p1"},
     workers   |-> {}],
    [accounts  |-> << "A1@x.com" >>,
     mailbox   |-> << << MsgWithId, MsgSameId >> >>,
     smtp      |-> {"a1@x.com"},
     producers |-> {"p1"},
     workers   |-> {}],
    [accounts  |-> << "a2@x.com" >>,
     mailbox   |-> << << MsgOther >> >>,
     smtp      |-> {"jesse0526@officalbusiness.com"},
     producers |-> {"p1"},
     workers   |-> {"w1"}] }

Producers == {"p1", "p2"}
Workers   == {"w1", "w2"}

FallbackAccount == "jesse0526@officalbusiness.com"

\* to_email.strip().lower() on the addresses of this model
NormalizeAddr(a) ==
  CASE a = "A1@x.com" -> "a1@x.com"
    [] OTHER          -> a

Min(a, b) == IF a < b THEN a ELSE b

\* content[:n]
Prefix(s, n) == SubSeq(s, 1, Min(n, Len(s)))

\* str(uuid.uuid5(NAMESPACE_DNS, s)): a name-based digest, modelled as an
\* injective tagging of its source string
Uuid5(s) == "uuid5(" \o s \o ")"

generate_email_uuid(message_id, from_email, content) ==
  IF message_id # ""
    THEN Uuid5(message_id \o ":" \o from_email \o ":" \o Prefix(content, UuidPrefixLen))
    ELSE Uuid5(from_email \o ":" \o Prefix(content, UuidPrefixLong))

\* msg.get('Message-ID') or str(uuid.uuid4()): the values message_id may take
MessageIdOf(m) == IF m.mid # "" THEN {m.mid} ELSE RandIds

VARIABLES
  deploy,        \* the deployment: accounts, mailboxes, relay map, processes
  emails,        \* table emails: sequence of rows, the index is column id
  senders,       \* table email_senders: the email_address values
  queue,         \* Redis list email_task_queue
  replied_set,   \* members of the Redis set replied_emails_set
  replied_keys,  \* identities whose key replied:<uuid> exists
  pr,            \* per producer: pc, account index, message index, mid, uuid,
                 \* and whether its last run died before the end of its pass
  wk,            \* per worker: pc, task uuid, attempt, response text, whether
                 \* the relay accepted the send of this attempt, the class
                 \* of the exception the task's latest step raised, and the
                 \* state of the task (what the log tells of it)
  expiry,        \* Redis TTLs, in ticks still to run: of replied_emails_set
                 \* and of each key replied:<uuid>; and, per identity, the
                 \* ticks since add_to_replied_cache last wrote it. Only
                 \* SpecCacheTtl runs the clock; the other specifications
                 \* let entries expire at any time (ExpireSet, ExpireKey)
  sent,          \* history: replies the relay accepted, per identity
  windowCrash    \* history: identities whose worker crashed between the
                 \* relay's acceptance and the durable commit

vars == << deploy, emails, senders, queue, replied_set, replied_keys, pr, wk,
           expiry, sent, windowCrash >>

Accounts == deploy.accounts
Mailbox  == deploy.mailbox

\* Every identity the producers can resolve
AllUuids ==
  { generate_email_uuid(t[2], t[1].from, t[1].content) :
      t \in { x \in AllMessages \X ({ m.mid : m \in AllMessages } \cup RandIds) :
                 x[2] \in MessageIdOf(x[1]) } }

\* An empty cache: no TTL runs, no identity was ever written
NoEntries == [set |-> 0,
              key |-> [u \in AllUuids |-> 0],
              age |-> [u \in AllUuids |-> TtlTicks + 1]]

IdlePr == [pc |-> "idle", acct |-> 0, idx |-> 0, mid |-> "", uuid |-> "",
           crashed |-> FALSE]
IdleWk(st) == [pc |-> "idle", uuid |-> "", attempt |-> 0, text |-> "",
               relay_ok |-> FALSE, caught |-> "none", st |-> st]

Init ==
  /\ deploy \in Deployments
  /\ emails = << >>
  /\ senders = {}
  /\ queue = << >>
  /\ replied_set = {}
  /\ replied_keys = {}
  /\ pr = [p \in Producers |-> IdlePr]
  /\ wk = [w \in Workers |-> IdleWk("none")]
  /\ expiry = NoEntries
  /\ sent = [u \in AllUuids |-> 0]
  /\ windowCrash = {}

\* ---------------------------------------------------------------- helpers
\* The check without its backup EXISTS of the key: SISMEMBER only
IsRepliedSetOnly(u) == u \in replied_set

\* check_if_already_replied (email_pull.py) and is_already_replied
\* (process_response.py): SISMEMBER of the set, else EXISTS of the key
is_already_replied(u) == u \in replied_set \/ u \in replied_keys

CurMsg(r) == Mailbox[r.acct][r.idx]

\* The main loop's next account: connect, login, select, search; an account
\* whose search returns nothing logs out at once
RECURSIVE AccountStart(_)
AccountStart(a) ==
  IF a > Len(Accounts) THEN IdlePr
  ELSE IF Len(Mailbox[a]) = 0 THEN AccountStart(a + 1)
  ELSE [pc |-> "fetch", acct |-> a, idx |-> Len(Mailbox[a]), mid |-> "", uuid |-> "",
        crashed |-> FALSE]

\* `for eid in reversed(email_ids)`: the next older message, or logout and the
\* next account
NextMessage(r) ==
  IF r.idx > 1
    THEN [pc |-> "fetch", acct |-> r.acct, idx |-> r.idx - 1, mid |-> "", uuid |-> "",
          crashed |-> FALSE]
    ELSE AccountStart(r.acct + 1)

\* The INSERT of lines 283-297: is_processed, the ai_ columns and updated_at
\* take their column defaults
NewEmailRow(u, mid, from, to, content) ==
  [uuid |-> u, message_id |-> mid, from_email |-> from, to_email |-> to,
   content |-> content, is_processed |-> 0, ai_response_text |-> "",
   updated_at |-> 0]

\* A table without the key on uuid: every INSERT is taken
NoUniqueKey(tbl, u) == FALSE

\* The store's key on emails.uuid: an INSERT of a uuid the table holds is
\* rejected (IntegrityError)
UniqueUuidViolated(tbl, u) == \E i \in DOMAIN tbl : tbl[i].uuid = u

\* WHERE message_id = %s OR uuid = %s
SelectMatches(row, mid, u) == row.message_id = mid \/ row.uuid = u

\* ------------------------------------------------------- ingestion producer
\* __main__: a run of email_pull.py starts its pass over the accounts
P_Start(p) ==
  /\ pr[p].pc = "idle"
  /\ pr' = [pr EXCEPT ![p] = AccountStart(1)]
  /\ UNCHANGED << deploy, expiry, emails, senders, queue, replied_set, replied_keys, wk, sent,
                  windowCrash >>

\* lines 241-243: the FETCH of one message does not answer OK: continue
P_FetchNotOk(p) ==
  /\ pr[p].pc = "fetch"
  /\ pr' = [pr EXCEPT ![p] = NextMessage(pr[p])]
  /\ UNCHANGED << deploy, expiry, emails, senders, queue, replied_set, replied_keys, wk, sent,
                  windowCrash >>

\* The cache check without its `continue`: the candidate goes on to the
\* SELECT
CacheHitFallsThrough(r) == [r EXCEPT !.pc = "select"]

\* lines 256-258: the cache reports the identity as replied: log, `continue`
AfterCacheHit(r) == NextMessage(r)

\* lines 245-258: parse the message, resolve its identity, consult the cache
P_Fetch(p) ==
  /\ pr[p].pc = "fetch"
  /\ \E mid \in MessageIdOf(CurMsg(pr[p])) :
       LET m    == CurMsg(pr[p])
           u    == generate_email_uuid(mid, m.from, m.content)
           cand == [pr[p] EXCEPT !.mid = mid, !.uuid = u]
       IN  pr' = [pr EXCEPT ![p] =
                   IF is_already_replied(u)
                     THEN AfterCacheHit(cand)
                     ELSE [cand EXCEPT !.pc = "select"]]
  /\ UNCHANGED << deploy, expiry, emails, senders, queue, replied_set, replied_keys, wk, sent,
                  windowCrash >>

\* The existing row pushed whatever its state: no test of is_processed
EnqueueAnyExisting(row) == TRUE

\* line 267: `if is_processed == 0` of the existing row
NeedsEnqueue(row) == row.is_processed = 0

\* lines 260-272: SELECT ... WHERE message_id = %s OR uuid = %s; fetchone()
\* returns any one matching row
P_Select(p) ==
  /\ pr[p].pc = "select"
  /\ LET hits == { i \in DOMAIN emails :
                     SelectMatches(emails[i], pr[p].mid, pr[p].uuid) }
     IN  IF hits = {}
           THEN pr' = [pr EXCEPT ![p].pc = "insert"]
           ELSE \E i \in hits :
                  pr' = [pr EXCEPT ![p] =
                          IF NeedsEnqueue(emails[i])
                            THEN [pr[p] EXCEPT !.pc = "push", !.uuid = emails[i].uuid]
                            ELSE NextMessage(pr[p])]
  /\ UNCHANGED << deploy, expiry, emails, senders, queue, replied_set, replied_keys, wk, sent,
                  windowCrash >>

\* The INSERT without its db_conn.commit(): the row is not in the table the
\* other connections read, and the pass goes on to the push
P_InsertUncommitted(p) ==
  /\ pr[p].pc = "insert"
  /\ pr' = [pr EXCEPT ![p].pc = "push"]
  /\ UNCHANGED << deploy, expiry, emails, senders, queue, replied_set, replied_keys, wk, sent,
                  windowCrash >>

\* lines 273-298: get_or_create_sender_uuid, INSERT INTO emails, commit
P_Insert(p) ==
  /\ pr[p].pc = "insert"
  /\ ~UniqueUuidViolated(emails, pr[p].uuid)
  /\ LET m == CurMsg(pr[p])
     IN  /\ emails' = Append(emails, NewEmailRow(pr[p].uuid, pr[p].mid, m.from,
                                                 Accounts[pr[p].acct], m.content))
         /\ senders' = senders \cup {m.from}
  /\ pr' = [pr EXCEPT ![p].pc = "push"]
  /\ UNCHANGED << deploy, expiry, queue, replied_set, replied_keys, wk, sent, windowCrash >>

\* fetch_recent_emails without its try/except: the exception leaves the
\* `for account in EMAIL_ACCOUNTS` loop and the pass ends
AccountErrorEndsPass(r) == IdlePr

\* lines 309-310 and 321-331: the exception is logged inside
\* fetch_recent_emails, which returns; the main loop takes the next account
AfterAccountError(r) == AccountStart(r.acct + 1)

\* lines 293 and 309-310: the INSERT is rejected by the store's key; the
\* exception ends this account's pass
P_InsertRejected(p) ==
  /\ pr[p].pc = "insert"
  /\ UniqueUuidViolated(emails, pr[p].uuid)
  /\ pr' = [pr EXCEPT ![p] = AfterAccountError(pr[p])]
  /\ UNCHANGED << deploy, expiry, emails, senders, queue, replied_set, replied_keys, wk, sent,
                  windowCrash >>

\* lines 268 and 301: rpush(EMAIL_TASK_QUEUE, uuid), then the next message
P_Push(p) ==
  /\ pr[p].pc = "push"
  /\ Len(queue) < MaxQueue
  /\ queue' = Append(queue, pr[p].uuid)
  /\ pr' = [pr EXCEPT ![p] = NextMessage(pr[p])]
  /\ UNCHANGED << deploy, expiry, emails, senders, replied_set, replied_keys, wk, sent,
                  windowCrash >>

\* lines 227-230 and 309-310: any IMAP, MySQL or Redis call of the account's
\* pass raises; the exception is logged and the main loop takes the next
\* account
P_Fail(p) ==
  /\ pr[p].pc # "idle"
  /\ pr' = [pr EXCEPT ![p] = AfterAccountError(pr[p])]
  /\ UNCHANGED << deploy, expiry, emails, senders, queue, replied_set, replied_keys, wk, sent,
                  windowCrash >>

\* The producer process dies (kill, power loss) anywhere in its pass; the
\* next run starts a new pass
P_Crash(p) ==
  /\ pr[p].pc # "idle"
  /\ pr' = [pr EXCEPT ![p] = [IdlePr EXCEPT !.crashed = TRUE]]
  /\ UNCHANGED << deploy, expiry, emails, senders, queue, replied_set, replied_keys, wk, sent,
                  windowCrash >>

\* --------------------------------------------------------- reply consumer
\* SMTP_ACCOUNTS.get(to_email_norm) or SMTP_ACCOUNTS.get(<fallback address>):
\* whether process_email_by_uuid finds a relay account for the record
HasSmtpCfg(to_email) ==
  NormalizeAddr(to_email) \in deploy.smtp \/ FallbackAccount \in deploy.smtp

\* fetch_ai_reply: what a completion request may give for a record's content:
\* the sentinel of create_empty_response for blank content (no request is
\* made), else a response with text, a response without text, or an exception
AiResults(content) ==
  IF content = ""
    THEN { [ok |-> TRUE, response_text |-> "empty-sentinel"] }
    ELSE { [ok |-> TRUE,  response_text |-> "hi"],
           [ok |-> TRUE,  response_text |-> ""],
           [ok |-> FALSE, response_text |-> ""] }

\* The check of line 473 left out
ResponseTextUnchecked(text) == TRUE

\* line 473: `if not response_text: raise ValueError`
ResponseTextOk(text) == text # ""

\* send_auto_reply: the relay accepts the mail, the connection fails
\* (SMTPConnectError, SMTPServerDisconnected, socket.timeout) or the login is
\* refused (SMTPAuthenticationError)
RelayOutcomes == {"accepted", "transport", "auth"}

\* The retry as a loop that does not count: the attempt is entered again
\* with the same attempt number
RetrySameAttempt(r) ==
  [r EXCEPT !.pc = "attempt", !.text = "", !.relay_ok = FALSE]

\* lines 507-508 and 512-520: a retryable failure of the attempt: rollback,
\* then the next attempt, or give up after MAX_RETRIES attempts
AfterAttemptFailure(r) ==
  IF r.attempt < MAX_RETRIES
    THEN [r EXCEPT !.pc = "attempt", !.attempt = r.attempt + 1, !.text = "",
                   !.relay_ok = FALSE]
    ELSE IdleWk("Abandoned")

\* The empty response text handled like the authentication error: the task
\* stops at once
EmptyResponseIsFatal(r) == IdleWk("FatalStop")

\* lines 472-474 and 512-520: `if not response_text: raise ValueError`, which
\* the generic handler catches like any other failure of the attempt
AfterEmptyResponse(r) == AfterAttemptFailure(r)

\* SMTPAuthenticationError handled like the connection errors: no break
AfterAuthErrorRetried(r) == AfterAttemptFailure(r)

\* lines 509-511: SMTPAuthenticationError: break, no further attempt
AfterAuthError(r) == IdleWk("FatalStop")

\* The attempt without its send_auto_reply call: the save follows the
\* completion at once
DispatchSkipped(r, text, relay) ==
  [r EXCEPT !.pc = "save", !.text = text, !.relay_ok = FALSE]

\* lines 476-482 with their handlers: the send of the reply text
Dispatch(r, text, relay) ==
  CASE relay = "accepted"  -> [r EXCEPT !.pc = "save", !.text = text, !.relay_ok = TRUE]
    [] relay = "transport" -> AfterAttemptFailure(r)
    [] relay = "auth"      -> AfterAuthError(r)

\* WHERE uuid = %s of the UPDATE (line 148)
UpdateWhere(row, u) == row.uuid = u

\* The UPDATE with is_processed = 1 - is_processed in place of is_processed = 1
SaveUpdateToggle(row, text) ==
  [row EXCEPT !.ai_response_text = text, !.is_processed = 1 - row.is_processed,
              !.updated_at = Min(row.updated_at + 1, MaxStamp)]

\* SET ... of the UPDATE (lines 132-147); updated_at = NOW() is a write stamp
SaveUpdate(row, text) ==
  [row EXCEPT !.ai_response_text = text, !.is_processed = 1,
              !.updated_at = Min(row.updated_at + 1, MaxStamp)]

\* save_ai_response_to_email, the committed UPDATE
save_ai_response_to_email(tbl, u, text) ==
  [i \in DOMAIN tbl |->
     IF UpdateWhere(tbl[i], u) THEN SaveUpdate(tbl[i], text) ELSE tbl[i]]

\* The failed save without its rollback on a connection that commits each
\* statement: the UPDATE stays although the call raises
SaveFailureKeepsWrite(tbl, u, text) == save_ai_response_to_email(tbl, u, text)

\* lines 157-159: `except Exception: ... db_conn.rollback()`: the table is
\* as it was before the UPDATE
SaveRolledBack(tbl, u, text) == tbl

\* save_ai_response_to_email without the `raise` of line 160: the failure is
\* logged and the attempt goes on to the cache write
AfterSaveFailureSwallowed(r) == [r EXCEPT !.pc = "cache"]

\* lines 157-160 and 512: the UPDATE or commit raises: rollback, re-raise, and
\* the retry loop's generic handler
AfterSaveFailure(r) == AfterAttemptFailure(r)

\* process_email_by_uuid without its test of is_processed
ProcessedUnchecked(row) == FALSE

\* lines 399-401: `if is_processed: ... return None`
AlreadyProcessed(row) == row.is_processed # 0

\* consume_tasks, lines 588-624: BLPOP one task, the cache check, then
\* process_email_by_uuid (row absent, already processed, no relay account)
C_Take(w) ==
  /\ wk[w].pc = "idle"
  /\ queue # << >>
  /\ queue' = Tail(queue)
  /\ LET u    == Head(queue)
         rows == { i \in DOMAIN emails : emails[i].uuid = u }
     IN  IF is_already_replied(u)
           THEN wk' = [wk EXCEPT ![w] = IdleWk("Discarded")]
         ELSE IF rows = {}
           THEN wk' = [wk EXCEPT ![w] = IdleWk("Discarded")]
         ELSE \E i \in rows :
                wk' = [wk EXCEPT ![w] =
                        IF AlreadyProcessed(emails[i]) \/ ~HasSmtpCfg(emails[i].to_email)
                          THEN IdleWk("Discarded")
                          ELSE [pc |-> "attempt", uuid |-> u, attempt |-> 1,
                                text |-> "", relay_ok |-> FALSE,
                                caught |-> "none", st |-> "Attempting"]]
  /\ UNCHANGED << deploy, expiry, emails, senders, replied_set, replied_keys, pr, sent,
                  windowCrash >>

\* consume_tasks without the try/except of its loop body: the exception
\* leaves `while True` and the process ends
TaskErrorEndsLoop(r) == [IdleWk("Error") EXCEPT !.pc = "stopped"]

\* lines 626-629: `except Exception` of the loop body: log, sleep, and
\* `while True` goes on to the next BLPOP
AfterTaskError(r) == IdleWk("Error")

\* lines 588-593 and 626-629: the task is popped, then the decode or a Redis
\* or MySQL call before the retry loop raises; the task is gone from the
\* list
C_TakeFail(w) ==
  /\ wk[w].pc = "idle"
  /\ queue # << >>
  /\ queue' = Tail(queue)
  /\ wk' = [wk EXCEPT ![w] = AfterTaskError(wk[w])]
  /\ UNCHANGED << deploy, expiry, emails, senders, replied_set, replied_keys, pr, sent,
                  windowCrash >>

\* The row process_email_by_uuid loaded for the task
TaskRow(u) == emails[CHOOSE i \in DOMAIN emails : emails[i].uuid = u]

\* process_with_retry_uuid, lines 466-482: the completion request, the check
\* of its text, and the send
C_Attempt(w) ==
  /\ wk[w].pc = "attempt"
  /\ \E data \in AiResults(TaskRow(wk[w].uuid).content), relay \in RelayOutcomes :
       LET r   == wk[w]
           ai  == data.ok /\ ResponseTextOk(data.response_text)
           nxt == IF ~data.ok THEN AfterAttemptFailure(r)
                  ELSE IF ~ai THEN AfterEmptyResponse(r)
                  ELSE Dispatch(r, data.response_text, relay)
           exc == IF ~data.ok THEN "retryable"
                  ELSE IF ~ai THEN "empty_text"
                  ELSE IF relay = "transport" THEN "retryable"
                  ELSE IF relay = "auth" THEN "auth" ELSE "none"
       IN  /\ wk' = [wk EXCEPT ![w] = [nxt EXCEPT !.caught = exc]]
           /\ sent' = IF nxt.relay_ok
                        THEN [sent EXCEPT ![r.uuid] = Min(@ + 1, MaxSent)]
                        ELSE sent
  /\ UNCHANGED << deploy, expiry, emails, senders, queue, replied_set, replied_keys, pr,
                  windowCrash >>

\* lines 484-498: save_ai_response_to_email commits, or raises
C_Save(w) ==
  /\ wk[w].pc = "save"
  /\ \E ok \in BOOLEAN :
       IF ok
         THEN /\ emails' = save_ai_response_to_email(emails, wk[w].uuid, wk[w].text)
              /\ wk' = [wk EXCEPT ![w].pc = "cache"]
         ELSE /\ emails' = SaveRolledBack(emails, wk[w].uuid, wk[w].text)
              /\ wk' = [wk EXCEPT ![w] =
                         [AfterSaveFailure(wk[w]) EXCEPT !.caught = "retryable"]]
  /\ UNCHANGED << deploy, expiry, senders, queue, replied_set, replied_keys, pr, sent,
                  windowCrash >>

\* lines 500-505 and add_to_replied_cache: SADD and EXPIRE of the set, then
\* SETEX of the key; a Redis error before the SADD or between the two
\* falls to the retry loop's generic handler. The TTLs the write sets are
\* stated by the specification that uses the action
C_Cache(w) ==
  /\ wk[w].pc = "cache"
  /\ \E outcome \in {"ok", "fail_before_sadd", "fail_before_setex"} :
       /\ replied_set' = IF outcome = "fail_before_sadd"
                           THEN replied_set
                           ELSE replied_set \cup {wk[w].uuid}
       /\ replied_keys' = IF outcome = "ok"
                            THEN replied_keys \cup {wk[w].uuid}
                            ELSE replied_keys
       /\ wk' = [wk EXCEPT ![w] =
                  IF outcome = "ok"
                    THEN IdleWk("Succeeded")
                    ELSE [AfterAttemptFailure(wk[w]) EXCEPT !.caught = "retryable"]]
  /\ UNCHANGED << deploy, emails, senders, queue, pr, sent, windowCrash >>

\* line 515 and 626-629: the attempt fails and the db_conn.rollback() that
\* follows the handlers raises too (the connection is gone): the exception
\* leaves process_with_retry_uuid and is caught by the loop body's handler
C_TaskError(w) ==
  /\ wk[w].pc \in {"attempt", "save", "cache"}
  /\ wk' = [wk EXCEPT ![w] = AfterTaskError(wk[w])]
  /\ UNCHANGED << deploy, expiry, emails, senders, queue, replied_set, replied_keys, pr, sent,
                  windowCrash >>

\* The worker process dies in the middle of a task and is started again
C_Crash(w) ==
  /\ wk[w].pc # "idle"
  /\ wk' = [wk EXCEPT ![w] = IdleWk("none")]
  /\ windowCrash' = IF wk[w].pc = "save"
                      THEN windowCrash \cup {wk[w].uuid}
                      ELSE windowCrash
  /\ UNCHANGED << deploy, expiry, emails, senders, queue, replied_set, replied_keys, pr, sent >>

\* ------------------------------------------------------------ dedup cache
\* The TTL of replied_emails_set elapses: the whole set goes
ExpireSet ==
  /\ replied_set # {}
  /\ replied_set' = {}
  /\ UNCHANGED << deploy, expiry, emails, senders, queue, replied_keys, pr, wk, sent, windowCrash >>

\* The TTL of one replied:<uuid> key elapses
ExpireKey(u) ==
  /\ u \in replied_keys
  /\ replied_keys' = replied_keys \ {u}
  /\ UNCHANGED << deploy, expiry, emails, senders, queue, replied_set, pr, wk, sent, windowCrash >>

Next ==
  \/ \E p \in deploy.producers : P_Start(p)
  \/ \E p \in deploy.producers : P_FetchNotOk(p)
  \/ \E p \in deploy.producers : P_Fetch(p)
  \/ \E p \in deploy.producers : P_Select(p)
  \/ \E p \in deploy.producers : P_Insert(p)
  \/ \E p \in deploy.producers : P_InsertRejected(p)
  \/ \E p \in deploy.producers : P_Push(p)
  \/ \E p \in deploy.producers : P_Fail(p)
  \/ \E p \in deploy.producers : P_Crash(p)
  \/ \E w \in deploy.workers : C_Take(w)
  \/ \E w \in deploy.workers : C_TakeFail(w)
  \/ \E w \in deploy.workers : C_Attempt(w)
  \/ \E w \in deploy.workers : C_Save(w)
  \/ \E w \in deploy.workers : C_Cache(w) /\ UNCHANGED expiry
  \/ \E w \in deploy.workers : C_TaskError(w)
  \/ \E w \in deploy.workers : C_Crash(w)
  \/ ExpireSet
  \/ \E u \in AllUuids : ExpireKey(u)

Spec == Init /\ [][Next]_vars

\* ------------------------------------------------------- failure-free runs
\* One run of email_pull.py at a time against one consumer, a mailbox that
\* holds a message with and a message without a Message-ID header
FailureFreeDeployment ==
  [accounts  |-> << "A1@x.com" >>,
   mailbox   |-> << << MsgWithoutId, MsgWithId >> >>,
   smtp      |-> {"a1@x.com"},
   producers |-> {"p1"},
   workers   |-> {"w1"}]

\* Empty table, list and cache; no process has started
EmptyStart ==
  /\ emails = << >>
  /\ senders = {}
  /\ queue = << >>
  /\ replied_set = {}
  /\ replied_keys = {}
  /\ pr = [p \in Producers |-> IdlePr]
  /\ wk = [w \in Workers |-> IdleWk("none")]
  /\ expiry = NoEntries
  /\ sent = [u \in AllUuids |-> 0]
  /\ windowCrash = {}

InitFailureFree == deploy = FailureFreeDeployment /\ EmptyStart

\* The steps of the program in which no call raises, every FETCH answers OK,
\* the completion returns text, the relay accepts, no process dies and no
\* cache entry reaches its TTL
FailureFreeNext ==
  \/ \E p \in deploy.producers : P_Start(p)
  \/ \E p \in deploy.producers : P_Fetch(p)
  \/ \E p \in deploy.producers : P_Select(p)
  \/ \E p \in deploy.producers : P_Insert(p)
  \/ \E p \in deploy.producers : P_Push(p)
  \/ \E w \in deploy.workers : C_Take(w)
  \/ \E w \in deploy.workers : C_Attempt(w) /\ wk'[w].pc = "save"
  \/ \E w \in deploy.workers : C_Save(w) /\ wk'[w].pc = "cache"
  \/ \E w \in deploy.workers : C_Cache(w) /\ wk'[w].st = "Succeeded" /\ UNCHANGED expiry

SpecFailureFree == InitFailureFree /\ [][FailureFreeNext]_vars

\* ------------------------------------------- one consumer, no process dies
\* One instance of process_response.py; runs of email_pull.py may overlap
SingleConsumerDeployment ==
  [accounts  |-> << "A1@x.com" >>,
   mailbox   |-> << << MsgWithId >> >>,
   smtp      |-> {"a1@x.com"},
   producers |-> {"p1", "p2"},
   workers   |-> {"w1"}]

InitSingleConsumer == deploy = SingleConsumerDeployment /\ EmptyStart

\* Every step of the program but the death of a process
NextNoCrash ==
  \/ \E p \in deploy.producers : P_Start(p)
  \/ \E p \in deploy.producers : P_FetchNotOk(p)
  \/ \E p \in deploy.producers : P_Fetch(p)
  \/ \E p \in deploy.producers : P_Select(p)
  \/ \E p \in deploy.producers : P_Insert(p)
  \/ \E p \in deploy.producers : P_InsertRejected(p)
  \/ \E p \in deploy.producers : P_Push(p)
  \/ \E p \in deploy.producers : P_Fail(p)
  \/ \E w \in deploy.workers : C_Take(w)
  \/ \E w \in deploy.workers : C_TakeFail(w)
  \/ \E w \in deploy.workers : C_Attempt(w)
  \/ \E w \in deploy.workers : C_Save(w)
  \/ \E w \in deploy.workers : C_Cache(w) /\ UNCHANGED expiry
  \/ \E w \in deploy.workers : C_TaskError(w)
  \/ ExpireSet
  \/ \E u \in AllUuids : ExpireKey(u)

SpecSingleConsumer == InitSingleConsumer /\ [][NextNoCrash]_vars

\* ------------------------------------------------------------ fair runs
\* The scheduling the deployment gives: email_pull.py is started again and
\* again and its pass goes on from one statement to the next; the consumer's
\* `while True` takes the next task and a task goes on from one call to the
\* next. Nothing is assumed about which outcome a call has
Fairness ==
  /\ \A p \in SingleConsumerDeployment.producers :
       /\ WF_vars(P_Start(p))
       /\ WF_vars(P_Fetch(p))
       /\ WF_vars(P_Select(p))
       /\ WF_vars(P_Insert(p))
       /\ WF_vars(P_Push(p))
  /\ \A w \in SingleConsumerDeployment.workers :
       /\ WF_vars(C_Take(w))
       /\ WF_vars(C_Attempt(w))
       /\ WF_vars(C_Save(w))
       /\ WF_vars(C_Cache(w) /\ UNCHANGED expiry)

SpecFair == InitSingleConsumer /\ [][NextNoCrash]_vars /\ Fairness

\* ------------------------------------------------------ shutdown requests
\* main, lines 648-655: KeyboardInterrupt is raised in the main thread
\* wherever the consumer is: in the BLPOP or inside a task. It is not an
\* Exception, so neither the handlers of the retry loop and of
\* save_ai_response_to_email nor the handler of the loop body catch it; it
\* leaves consume_tasks, main logs the shutdown, closes the cursor and the
\* connection (what is not committed is lost) and returns
C_Interrupt(w) ==
  /\ wk[w].pc # "stopped"
  /\ wk' = [wk EXCEPT ![w] = [wk[w] EXCEPT !.pc = "stopped", !.st = "Shutdown"]]
  /\ UNCHANGED << deploy, expiry, emails, senders, queue, replied_set, replied_keys,
                  pr, sent, windowCrash >>

\* The failure-free steps of the program and the shutdown request
ShutdownNext ==
  \/ \E p \in deploy.producers : P_Start(p)
  \/ \E p \in deploy.producers : P_Fetch(p)
  \/ \E p \in deploy.producers : P_Select(p)
  \/ \E p \in deploy.producers : P_Insert(p)
  \/ \E p \in deploy.producers : P_Push(p)
  \/ \E w \in deploy.workers : C_Take(w)
  \/ \E w \in deploy.workers : C_Attempt(w) /\ wk'[w].pc = "save"
  \/ \E w \in deploy.workers : C_Save(w) /\ wk'[w].pc = "cache"
  \/ \E w \in deploy.workers : C_Cache(w) /\ wk'[w].st = "Succeeded" /\ UNCHANGED expiry
  \/ \E w \in deploy.workers : C_Interrupt(w)

SpecShutdown == InitFailureFree /\ [][ShutdownNext]_vars

\* ------------------------------------------------- the cache under a clock
\* One account whose mailbox holds two messages, one run of email_pull.py at
\* a time, one consumer
CacheTtlDeployment ==
  [accounts  |-> << "A1@x.com" >>,
   mailbox   |-> << << MsgWithId, MsgOther >> >>,
   smtp      |-> {"a1@x.com"},
   producers |-> {"p1"},
   workers   |-> {"w1"}]

InitCacheTtl == deploy = CacheTtlDeployment /\ EmptyStart

\* add_to_replied_cache, lines 86-94: EXPIRE replied_emails_set ttl_seconds
\* sets the TTL of the whole set anew, SETEX sets the TTL of the one key
CacheWriteTtl(e, u) ==
  [set |-> TtlTicks,
   key |-> [e.key EXCEPT ![u] = TtlTicks],
   age |-> [e.age EXCEPT ![u] = 0]]

\* One tick of Redis' clock: every running TTL loses a tick, and what
\* reaches zero is deleted: the set with all its members, a key alone
Tick ==
  /\ expiry.set > 0 \/ \E u \in AllUuids : expiry.key[u] > 0
  /\ expiry' = [set |-> IF expiry.set > 0 THEN expiry.set - 1 ELSE 0,
                key |-> [u \in AllUuids |->
                          IF expiry.key[u] > 0 THEN expiry.key[u] - 1 ELSE 0],
                age |-> [u \in AllUuids |-> Min(expiry.age[u] + 1, TtlTicks + 1)]]
  /\ replied_set' = IF expiry.set = 1 THEN {} ELSE replied_set
  /\ replied_keys' = { u \in replied_keys : expiry.key[u] # 1 }
  /\ UNCHANGED << deploy, emails, senders, queue, pr, wk, sent, windowCrash >>

\* The failure-free steps of the program, the cache write with the TTLs it
\* sets, and the clock
CacheTtlNext ==
  \/ \E p \in deploy.producers : P_Start(p)
  \/ \E p \in deploy.producers : P_Fetch(p)
  \/ \E p \in deploy.producers : P_Select(p)
  \/ \E p \in deploy.producers : P_Insert(p)
  \/ \E p \in deploy.producers : P_Push(p)
  \/ \E w \in deploy.workers : C_Take(w)
  \/ \E w \in deploy.workers : C_Attempt(w) /\ wk'[w].pc = "save"
  \/ \E w \in deploy.workers : C_Save(w) /\ wk'[w].pc = "cache"
  \/ \E w \in deploy.workers :
       /\ C_Cache(w) /\ wk'[w].st = "Succeeded"
       /\ expiry' = CacheWriteTtl(expiry, wk[w].uuid)
  \/ Tick

SpecCacheTtl == InitCacheTtl /\ [][CacheTtlNext]_vars

\* ------------------------------------------------------------------ claims
\* The rows the table holds for the message m of account address to
RowsOfMessage(m, to) ==
  { i \in DOMAIN emails : /\ emails[i].from_email = m.from
                          /\ emails[i].content = m.content
                          /\ emails[i].to_email = to }

\* C1: for every identity the relay accepts at most one reply, and at most
\* one more when a worker crashed between the relay's acceptance and the
\* durable commit of that identity.
C1_AtMostOneReply ==
  \A u \in AllUuids : sent[u] <= 1 + (IF u \in windowCrash THEN 1 ELSE 0)

\* C2: when a worker on its first attempt commits the UPDATE for a record
\* that another worker has made Processed since this one loaded it, the
\* UPDATE is a no-op: no column of the record changes.
C2_LoserIsNoOp ==
  [][ \A w \in Workers :
        (wk[w].pc = "save" /\ wk[w].attempt = 1 /\ wk'[w].pc = "cache")
          => \A i \in DOMAIN emails :
               (emails[i].uuid = wk[w].uuid /\ emails[i].is_processed = 1)
                 => emails'[i] = emails[i] ]_vars

\* C3: the table holds at most one row per identity, also when two producer
\* passes both found the identity absent before either inserted.
C3_OneRecordPerIdentity ==
  \A i, j \in DOMAIN emails : emails[i].uuid = emails[j].uuid => i = j

\* C3 witness: a producer that found the identity absent is about to insert
\* it while the other producer's row for it is already stored.
C3_Witness ==
  \E p \in Producers :
    pr[p].pc = "insert" /\ \E i \in DOMAIN emails : emails[i].uuid = pr[p].uuid

\* C4: no step removes a row, no step takes a Processed row back to Pending,
\* and every new row is Pending.
C4_StateMonotonic ==
  [][ /\ Len(emails') >= Len(emails)
      /\ \A i \in DOMAIN emails :
           emails[i].is_processed = 1 => emails'[i].is_processed = 1
      /\ \A i \in DOMAIN emails' :
           i > Len(emails) => emails'[i].is_processed = 0 ]_vars

\* C4 witness: a Processed row is written a second time (its write stamp is
\* past the first write) and is still Processed.
C4_Witness ==
  \E i \in DOMAIN emails : emails[i].is_processed = 1 /\ emails[i].updated_at >= 2

\* C5: every Processed row holds a non-empty response text.
C5_ProcessedHasReply ==
  \A i \in DOMAIN emails :
    emails[i].is_processed = 1 => emails[i].ai_response_text # ""

\* C5 witness: a row was made Processed by a task that needed more than one
\* attempt.
C5_Witness ==
  \E w \in Workers :
    /\ wk[w].pc = "cache" /\ wk[w].attempt > 1
    /\ \E i \in DOMAIN emails :
         emails[i].uuid = wk[w].uuid /\ emails[i].is_processed = 1

\* C6: a row goes from Pending to Processed only in the commit step of a
\* worker whose send for that identity the relay accepted in the same
\* attempt.
C6_CommitAfterRelay ==
  [][ \A i \in DOMAIN emails :
        (emails[i].is_processed = 0 /\ emails'[i].is_processed = 1)
          => \E w \in Workers :
               /\ wk[w].pc = "save" /\ wk'[w].pc = "cache"
               /\ wk[w].uuid = emails[i].uuid
               /\ wk[w].relay_ok
               /\ sent[emails[i].uuid] >= 1 ]_vars

\* C6 witness: a worker has committed its task's row after an accepted send.
C6_Witness ==
  \E w \in Workers :
    /\ wk[w].pc = "cache" /\ wk[w].relay_ok
    /\ \E i \in DOMAIN emails :
         emails[i].uuid = wk[w].uuid /\ emails[i].is_processed = 1

\* C7: an identity is in the dedup cache (member of the set or key present)
\* only if the table holds a row for it and every such row is Processed.
C7_CacheOnlyAfterCommit ==
  \A u \in replied_set \cup replied_keys :
    /\ \E i \in DOMAIN emails : emails[i].uuid = u
    /\ \A i \in DOMAIN emails : emails[i].uuid = u => emails[i].is_processed = 1

\* C7 witness: the cache holds an identity, in one representation only.
C7_Witness ==
  \E u \in AllUuids : u \in replied_set /\ u \notin replied_keys

\* C8: when a pass resolves the identity of a message, it is the identity of
\* every row an earlier ingestion stored for that same message.
C8_SameIdentityOnReingest ==
  [][ \A p \in Producers :
        (pr[p].pc = "fetch" /\ pr'[p].pc = "select")
          => \A i \in RowsOfMessage(CurMsg(pr[p]), Accounts[pr[p].acct]) :
               emails[i].uuid = pr'[p].uuid ]_vars

\* C9: when a pass enqueues for a message, every Pending row stored for that
\* message is the one whose identity it enqueues.
C9_PendingReenqueued ==
  [][ \A p \in Producers :
        (pr[p].pc = "push" /\ queue' = Append(queue, pr[p].uuid))
          => \A i \in RowsOfMessage(CurMsg(pr[p]), Accounts[pr[p].acct]) :
               emails[i].is_processed = 0 => emails[i].uuid = pr[p].uuid ]_vars

\* C10: the step in which the retry loop catches the relay's authentication
\* failure ends the task as a fatal stop, not as Abandoned, and changes
\* neither the table, the cache, the queue nor the count of accepted replies.
C10_AuthFailureIsFatal ==
  [][ \A w \in Workers :
        (wk[w].pc = "attempt" /\ wk'[w].caught = "auth")
          => /\ wk'[w].pc = "idle"
             /\ wk'[w].st = "FatalStop"
             /\ emails' = emails
             /\ replied_set' = replied_set /\ replied_keys' = replied_keys
             /\ queue' = queue /\ sent' = sent ]_vars

\* C10 witness: a task ended by the authentication failure on its first
\* send, its record still Pending and not in the cache.
C10_Witness ==
  \E w \in Workers :
    /\ wk[w].st = "FatalStop" /\ wk[w].caught = "auth"
    /\ \A u \in AllUuids : sent[u] = 0
    /\ \E i \in DOMAIN emails : emails[i].is_processed = 0
    /\ replied_set = {} /\ replied_keys = {}

\* C11: the step in which a task runs out of its MAX_RETRIES attempts and
\* ends Abandoned is the failure of an attempt whose send the relay has not
\* accepted; it writes neither the table nor the cache, the record of the
\* task is Pending, and the identity is not put back onto the queue.
C11_AbandonedLeavesNoTrace ==
  [][ \A w \in Workers :
        (wk[w].pc # "idle" /\ wk'[w].st = "Abandoned")
          => /\ wk[w].pc = "attempt" /\ ~wk[w].relay_ok
             /\ \A i \in DOMAIN emails :
                  emails[i].uuid = wk[w].uuid => emails'[i].is_processed = 0
             /\ emails' = emails
             /\ replied_set' = replied_set /\ replied_keys' = replied_keys
             /\ queue' = queue ]_vars

\* C12: a step that removes members of replied_emails_set leaves every
\* replied:<identity> key in place, a step that removes a key leaves the set
\* as it is, and while either representation holds an identity the check
\* answers "replied": no producer goes on to the store with such an identity
\* and no worker starts an attempt for it.
C12_CacheRepresentationsIndependent ==
  [][ /\ (replied_set \ replied_set' # {}) => replied_keys' = replied_keys
      /\ (replied_keys \ replied_keys' # {}) => replied_set' = replied_set
      /\ \A p \in Producers :
           (pr[p].pc = "fetch" /\ pr'[p].pc = "select")
             => pr'[p].uuid \notin replied_set \cup replied_keys
      /\ \A w \in Workers :
           (wk[w].pc = "idle" /\ wk'[w].pc = "attempt")
             => wk'[w].uuid \notin replied_set \cup replied_keys ]_vars

\* C12 witness: the set has expired while the key of an identity survives,
\* and a producer is about to consult the cache for that identity.
C12_Witness ==
  \E p \in Producers :
    /\ pr[p].pc = "fetch"
    /\ \E mid \in MessageIdOf(CurMsg(pr[p])) :
         LET u == generate_email_uuid(mid, CurMsg(pr[p]).from, CurMsg(pr[p]).content)
         IN  u \in replied_keys /\ u \notin replied_set

\* C13: in a failure-free run, the step that completes a task leaves its
\* record Processed with the reply text and the cache reporting the identity
\* as replied; and once a message's record is Processed and its identity in
\* the cache, a later pass that comes to the same message skips it at the
\* cache check, with no store write and no enqueue.
C13_FailureFreeRun ==
  [][ /\ \A w \in Workers :
           (wk[w].pc = "cache" /\ wk'[w].st = "Succeeded")
             => /\ wk[w].uuid \in replied_set' \cup replied_keys'
                /\ \E i \in DOMAIN emails' :
                     /\ emails'[i].uuid = wk[w].uuid
                     /\ emails'[i].is_processed = 1
                     /\ emails'[i].ai_response_text # ""
      /\ \A p \in Producers :
           ( /\ pr[p].pc = "fetch" /\ pr'[p] # pr[p]
             /\ \E i \in RowsOfMessage(CurMsg(pr[p]), Accounts[pr[p].acct]) :
                  emails[i].is_processed = 1 /\ is_already_replied(emails[i].uuid) )
             => /\ pr'[p] = NextMessage(pr[p])
                /\ emails' = emails /\ queue' = queue ]_vars

\* C14: no worker's loop has ended; a worker whose task ended in a failure
\* (caught at the loop body, abandoned after the last attempt, or stopped by
\* the authentication failure) is back at the BLPOP, and when the queue holds
\* a task it can pop it.
C14_LoopSurvivesFailures ==
  \A w \in deploy.workers :
    /\ wk[w].pc \in {"idle", "attempt", "save", "cache"}
    /\ wk[w].st \in {"Error", "Abandoned", "FatalStop"}
         => /\ wk[w].pc = "idle"
            /\ queue # << >> => ENABLED C_Take(w)

\* C14 witness: a worker's task ended in an exception caught at the loop
\* body while another queue entry waits.
C14_Witness ==
  \E w \in deploy.workers : wk[w].st = "Error" /\ queue # << >>

\* C15: a pass leaves an account only for the start of the next account of
\* load_email_accounts' order, whether the account's ingestion finished or
\* failed: unless the process dies, a failure in one account skips no other
\* account and does not end the pass early.
C15_AccountFailureIsLocal ==
  [][ \A p \in Producers :
        (pr[p].pc # "idle" /\ pr'[p] # pr[p] /\ ~pr'[p].crashed)
          => \/ pr'[p].acct = pr[p].acct
             \/ pr'[p] = AccountStart(pr[p].acct + 1) ]_vars

\* C15 witness: the pass has stored the second account's message although
\* the first account's ingestion stored nothing.
C15_Witness ==
  \E p \in Producers :
    /\ Len(Accounts) = 2 /\ pr[p].acct = 2 /\ pr[p].pc = "push"
    /\ \E i \in DOMAIN emails : emails[i].to_email = Accounts[2]
    /\ \A i \in DOMAIN emails : emails[i].to_email # Accounts[1]

\* C16: with one consumer and no crash, however many queue entries an
\* identity has, the relay accepts at most one reply for it, its record is
\* written at most once, and the consumer starts no attempt for a task whose
\* record is already Processed.
C16_DuplicatesReplyOnce ==
  [][ /\ \A u \in AllUuids : sent'[u] <= 1
      /\ \A i \in DOMAIN emails' : emails'[i].updated_at <= 1
      /\ \A w \in Workers :
           (wk[w].pc = "idle" /\ wk'[w].pc = "attempt")
             => \A i \in DOMAIN emails :
                  emails[i].uuid = wk'[w].uuid => emails[i].is_processed = 0 ]_vars

\* C17: when a worker dies in the middle of a task, the queue still holds
\* the task's identity for another delivery, without any producer push.
C17_CrashedTaskRedelivered ==
  [][ \A w \in Workers :
        (wk[w].pc # "idle" /\ wk'[w].pc = "idle" /\ wk'[w].st = "none")
          => \E k \in DOMAIN queue' : queue'[k] = wk[w].uuid ]_vars

\* C18: when the cache reports the identity of a producer's candidate as
\* replied, the producer's step on that candidate goes to the next message
\* (or ends the account): it does not go on to the SELECT, the INSERT or the
\* push, and the table, the sender table and the queue are unchanged.
C18_CacheHitSkipsCandidate ==
  [][ \A p \in Producers :
        ( /\ pr[p].pc = "fetch" /\ pr'[p] # pr[p]
          /\ \A mid \in MessageIdOf(CurMsg(pr[p])) :
               is_already_replied(generate_email_uuid(mid, CurMsg(pr[p]).from,
                                                      CurMsg(pr[p]).content)) )
          => /\ pr'[p].pc \in {"fetch", "idle"}
             /\ emails' = emails /\ senders' = senders /\ queue' = queue ]_vars

\* C18 witness: a producer is at a candidate whose identity both cache
\* representations hold.
C18_Witness ==
  \E p \in Producers :
    /\ pr[p].pc = "fetch"
    /\ \A mid \in MessageIdOf(CurMsg(pr[p])) :
         LET u == generate_email_uuid(mid, CurMsg(pr[p]).from, CurMsg(pr[p]).content)
         IN  u \in replied_set /\ u \in replied_keys

\* C19: when every row the producer's SELECT matches is Processed, the
\* producer's step on the candidate goes to the next message (or ends the
\* account): it reaches neither the INSERT nor the push, and the table, the
\* sender table and the queue are unchanged, whether or not the cache holds
\* the identity.
C19_ProcessedRecordIsNoOp ==
  [][ \A p \in Producers :
        LET hits == { i \in DOMAIN emails :
                        SelectMatches(emails[i], pr[p].mid, pr[p].uuid) }
        IN  ( /\ pr[p].pc = "select" /\ pr'[p] # pr[p]
              /\ hits # {}
              /\ \A i \in hits : emails[i].is_processed = 1 )
              => /\ pr'[p].pc \in {"fetch", "idle"}
                 /\ emails' = emails /\ senders' = senders /\ queue' = queue ]_vars

\* C19 witness: a producer is at the SELECT of a candidate whose record is
\* Processed while the cache holds nothing for it.
C19_Witness ==
  \E p \in Producers :
    /\ pr[p].pc = "select"
    /\ replied_set = {} /\ replied_keys = {}
    /\ \E i \in DOMAIN emails :
         emails[i].uuid = pr[p].uuid /\ emails[i].is_processed = 1

\* C20: every identity in the task queue has a row in the table, so that the
\* SELECT of a worker that pops it finds the row, and so has every identity
\* a worker is working on.
C20_QueuedIdentityHasRecord ==
  /\ \A k \in DOMAIN queue : \E i \in DOMAIN emails : emails[i].uuid = queue[k]
  /\ \A w \in Workers : wk[w].pc # "idle" =>
       \E i \in DOMAIN emails : emails[i].uuid = wk[w].uuid

\* C20 witness: the queue holds two entries and the table holds the record
\* of each, while a producer is between its INSERT and its push.
C20_Witness ==
  /\ Len(queue) = 2
  /\ \A k \in DOMAIN queue : \E i \in DOMAIN emails : emails[i].uuid = queue[k]
  /\ \E p \in Producers : pr[p].pc = "push"

\* C21: a producer goes from its SELECT to the push only with the identity
\* it resolved for the candidate and only when the table holds a row of that
\* identity; a candidate whose identity no row has is inserted, whatever
\* Message-ID the stored rows carry.
C21_MessageIdNotIdentity ==
  [][ \A p \in Producers :
        (pr[p].pc = "select" /\ pr'[p].pc = "push")
          => /\ pr'[p].uuid = pr[p].uuid
             /\ \E i \in DOMAIN emails : emails[i].uuid = pr[p].uuid ]_vars

\* C22: when a worker pops a task whose record is Processed, no worker
\* starts an attempt and the table, the count of accepted replies and the
\* cache are unchanged, whether or not the cache holds the identity.
C22_StoreGuardsWithoutCache ==
  [][ ( /\ Len(queue') < Len(queue)
        /\ \E i \in DOMAIN emails :
             emails[i].uuid = Head(queue) /\ emails[i].is_processed = 1 )
        => /\ \A w \in Workers : wk'[w].pc = wk[w].pc
           /\ emails' = emails /\ sent' = sent
           /\ replied_set' = replied_set /\ replied_keys' = replied_keys ]_vars

\* C22 witness: the head of the queue is the identity of a Processed record,
\* the cache holds nothing for it, and a worker is at the BLPOP.
C22_Witness ==
  /\ queue # << >>
  /\ ~is_already_replied(Head(queue))
  /\ \E i \in DOMAIN emails :
       emails[i].uuid = Head(queue) /\ emails[i].is_processed = 1
  /\ \E w \in deploy.workers : wk[w].pc = "idle"

\* C23: when a worker pops a task whose record's normalized recipient
\* address is not a key of SMTP_ACCOUNTS, no worker starts an attempt, no
\* reply is sent and the record is unchanged.
C23_NoRelayAccountDiscards ==
  [][ ( /\ Len(queue') < Len(queue)
        /\ \E i \in DOMAIN emails :
             /\ emails[i].uuid = Head(queue)
             /\ NormalizeAddr(emails[i].to_email) \notin deploy.smtp )
        => /\ \A w \in Workers : wk'[w].pc = wk[w].pc
           /\ emails' = emails /\ sent' = sent ]_vars

\* The order of the calls in the body of one attempt of
\* process_with_retry_uuid: completion and send, save, cache write
PcRank(pc) ==
  CASE pc = "attempt" -> 1
    [] pc = "save"    -> 2
    [] pc = "cache"   -> 3
    [] OTHER          -> 0

\* C24: no task is ever in an attempt past MAX_RETRIES; every step of a
\* worker inside a task ends the task, or starts the next attempt, or moves
\* forward inside the attempt, so that a task takes at most 3 * MAX_RETRIES
\* steps; and the step that succeeds ends the task.
C24_RetryLoopTerminates ==
  [][ \A w \in Workers :
        /\ wk'[w].attempt <= MAX_RETRIES
        /\ (wk[w].pc # "idle" /\ wk'[w] # wk[w])
             => \/ wk'[w].pc = "idle"
                \/ wk'[w].attempt = wk[w].attempt + 1
                \/ /\ wk'[w].attempt = wk[w].attempt
                   /\ PcRank(wk'[w].pc) > PcRank(wk[w].pc)
        /\ (wk[w].pc # "idle" /\ wk'[w].st = "Succeeded")
             => wk'[w].pc = "idle" /\ wk'[w].attempt = 0 ]_vars

\* C24 witness: a task is in the cache write of its last attempt after two
\* failed attempts.
C24_Witness ==
  \E w \in Workers :
    wk[w].pc = "cache" /\ wk[w].attempt = MAX_RETRIES

\* C25: the step in which the retry loop catches the error raised for an
\* empty or missing response text sends nothing and changes neither the
\* table nor the cache; it starts the next attempt when the task has made
\* fewer than MAX_RETRIES attempts and ends the task as Abandoned, not as a
\* fatal stop, when it has made them all.
C25_EmptyResponseIsRetryable ==
  [][ \A w \in Workers :
        (wk[w].pc = "attempt" /\ wk'[w] # wk[w] /\ wk'[w].caught = "empty_text")
          => /\ sent' = sent /\ emails' = emails
             /\ replied_set' = replied_set /\ replied_keys' = replied_keys
             /\ wk[w].attempt < MAX_RETRIES
                  => /\ wk'[w].pc = "attempt"
                     /\ wk'[w].attempt = wk[w].attempt + 1
                     /\ wk'[w].uuid = wk[w].uuid
             /\ wk[w].attempt = MAX_RETRIES
                  => wk'[w].pc = "idle" /\ wk'[w].st = "Abandoned" ]_vars

\* C25 witness: a task is in its second attempt after an empty response
\* text, nothing sent, its record Pending and not in the cache.
C25_Witness ==
  \E w \in Workers :
    /\ wk[w].pc = "attempt" /\ wk[w].attempt = 2 /\ wk[w].caught = "empty_text"
    /\ sent[wk[w].uuid] = 0
    /\ ~is_already_replied(wk[w].uuid)
    /\ \A i \in DOMAIN emails :
         emails[i].uuid = wk[w].uuid => emails[i].is_processed = 0

\* C26: the step in which save_ai_response_to_email raises leaves the table
\* as it was (the record of a task that had found it Pending and alone on it
\* is still Pending without reply text) and the cache unchanged; the task
\* goes on to its next attempt when it has made fewer than MAX_RETRIES and
\* ends Abandoned when it has made them all.
C26_SaveFailureRollsBack ==
  [][ \A w \in Workers :
        (wk[w].pc = "save" /\ wk'[w] # wk[w] /\ wk'[w].caught = "retryable")
          => /\ emails' = emails
             /\ replied_set' = replied_set /\ replied_keys' = replied_keys
             /\ wk[w].attempt < MAX_RETRIES
                  => /\ wk'[w].pc = "attempt"
                     /\ wk'[w].attempt = wk[w].attempt + 1
                     /\ wk'[w].uuid = wk[w].uuid
             /\ wk[w].attempt = MAX_RETRIES
                  => wk'[w].pc = "idle" /\ wk'[w].st = "Abandoned" ]_vars

\* C26 witness: a task is in its second attempt after its save failed: the
\* relay has accepted its reply, the record is Pending without reply text
\* and the cache holds nothing for it.
C26_Witness ==
  \E w \in Workers :
    /\ wk[w].pc = "attempt" /\ wk[w].attempt = 2 /\ wk[w].caught = "retryable"
    /\ sent[wk[w].uuid] = 1
    /\ ~is_already_replied(wk[w].uuid)
    /\ \A i \in DOMAIN emails :
         emails[i].uuid = wk[w].uuid
           => emails[i].is_processed = 0 /\ emails[i].ai_response_text = ""

\* C27: an identity is reported as replied only while fewer than TtlTicks
\* ticks have passed since add_to_replied_cache last wrote that identity,
\* whatever was written for other identities since.
C27_EntryExpiresOnItsOwnTtl ==
  \A u \in AllUuids : is_already_replied(u) => expiry.age[u] < TtlTicks

\* C28: a shutdown request stops a consumer only between tasks: a consumer
\* that is inside a task when the request arrives finishes the task first,
\* and in particular does not stop after the relay accepted the reply of
\* the attempt and before the commit of the record.
C28_ShutdownWaitsForTask ==
  [][ \A w \in Workers :
        (wk[w].pc # "stopped" /\ wk'[w].pc = "stopped") => wk[w].pc = "idle" ]_vars

\* C29: a task whose UPDATE has committed starts no further attempt: from
\* the cache write no worker goes back to the completion request and the
\* send, also when the cache write fails.
C29_NoAttemptAfterCommit ==
  [][ \A w \in Workers :
        wk[w].pc = "cache" => wk'[w].pc # "attempt" ]_vars

\* C30: in a fair run in which, from some point on, no call fails any more,
\* the record becomes Processed and its identity appears in the dedup
\* cache.
C30_EventuallyProcessedAndCached ==
  (<>[][FailureFreeNext]_vars) =>
    /\ <>(\E i \in DOMAIN emails : emails[i].is_processed # 0)
    /\ <>(\E i \in DOMAIN emails : is_already_replied(emails[i].uuid))

====
